---- MODULE Spec2Model ----
(***************************************************************************)
(* gasadd (ga): queue a message to the Claude agents running in the        *)
(* windows of a tmux session.  The model follows runAdd of cmd/root.go     *)
(* (the current revision, lines 259-419): session resolution, the window   *)
(* filter, the dry-run listing, the per-target delivery loop with its      *)
(* pending-input retry, and the final report.  The tmux package is a       *)
(* collaborator: each of its calls is a step whose result is drawn from    *)
(* the outcomes the call can have.                                         *)
(***************************************************************************)
EXTENDS Integers, Sequences, FiniteSets, TLC

VARIABLES
    \* command-line flags (cmd/root.go 188-196), fixed for the run
    windowFlags, sessionFlag, patternFlag, anyFlag, allFlag, dryRunFlag, forceFlag,
    \* where the command was run from: [inside, session, window]
    caller,
    \* locals of runAdd
    session, currentWindowIndex, windows, targets,
    idx,            \* position of the range loop over targets (1-based)
    attempt, hasPending,
    succeeded, failed, skippedTyping, skippedNoClaude,
    pc,             \* position in runAdd
    err,            \* the error runAdd returns ("" is nil)
    stderrNoWindows,\* "No windows to send message to" was printed
    shown,          \* the lines the dry run printed
    calls,          \* the resolution calls made to tmux, with their answers
    log,            \* per target: what the collaborators were asked and answered
    \* one call of the classifier on its own: the window given, the processes
    \* under its pane, the answer
    clsWindow, clsProcs, clsVerdict, clsPc

flags == <<windowFlags, sessionFlag, patternFlag, anyFlag, allFlag, dryRunFlag, forceFlag>>
locals == <<session, currentWindowIndex, windows, targets, idx, attempt, hasPending>>
counters == <<succeeded, failed, skippedTyping, skippedNoClaude>>
classifier == <<clsWindow, clsProcs, clsVerdict, clsPc>>
vars == <<flags, caller, locals, counters, pc, err, stderrNoWindows, shown, calls, log,
          classifier>>

----------------------------------------------------------------------------
\* Bounds of the model

\* the longest window list ListWindows returns
MaxWindows == 2

\* the most processes under a pane
MaxChildren == 2

\* const maxRetries = 3
maxRetries == 3

----------------------------------------------------------------------------
\* Strings are sequences of characters.

Digits == <<"0", "1", "2", "3", "4", "5", "6", "7", "8", "9">>

\* fmt.Sprintf("%d", n) for n >= 0
RECURSIVE Itoa(_)
Itoa(n) ==
    IF n < 10 THEN <<Digits[n + 1]>>
    ELSE Itoa(n \div 10) \o <<Digits[(n % 10) + 1]>>

Lower(c) ==
    CASE c = "C" -> "c" [] c = "L" -> "l" [] c = "A" -> "a" [] c = "U" -> "u"
      [] c = "D" -> "d" [] c = "E" -> "e" [] c = "N" -> "n" [] c = "O" -> "o"
      [] OTHER -> c

ToLower(s) == [k \in 1..Len(s) |-> Lower(s[k])]

Contains(s, sub) ==
    \E k \in 0..(Len(s) - Len(sub)) : SubSeq(s, k + 1, k + Len(sub)) = sub

IsDigit(c) == \E k \in 1..10 : Digits[k] = c

\* ^\d+\.\d+\.\d+ : a run of digits, a dot, a run of digits, a dot, a digit
IsVersion(s) ==
    \E a \in 1..Len(s), b \in 1..Len(s) :
        /\ a + 1 < b /\ b < Len(s)
        /\ s[a + 1] = "." /\ s[b] = "."
        /\ \A k \in 1..a : IsDigit(s[k])
        /\ \A k \in (a + 2)..(b - 1) : IsDigit(s[k])
        /\ IsDigit(s[b + 1])

StrClaude == <<"c", "l", "a", "u", "d", "e">>
StrNode == <<"n", "o", "d", "e">>
StrBash == <<"b", "a", "s", "h">>
StrZsh == <<"z", "s", "h">>
StrSh == <<"s", "h">>
StrVim == <<"v", "i", "m">>

\* tmux.MatchPattern(name, pattern): glob with * and ?, anchored, case-sensitive
RECURSIVE MatchPattern(_, _)
MatchPattern(name, pattern) ==
    IF pattern = <<>> THEN name = <<>>
    ELSE IF Head(pattern) = "*"
         THEN MatchPattern(name, Tail(pattern))
              \/ (name # <<>> /\ MatchPattern(Tail(name), pattern))
         ELSE /\ name # <<>>
              /\ (Head(pattern) = "?" \/ Head(pattern) = Head(name))
              /\ MatchPattern(Tail(name), Tail(pattern))

\* rules 1 and 2 of the classifier, on one command name
LooksLikeClaude(cmd) ==
    \/ Contains(ToLower(cmd), StrClaude)
    \/ Contains(ToLower(cmd), StrNode)
    \/ IsVersion(cmd)

IsShell(cmd) == cmd \in {StrBash, StrZsh, StrSh}

\* The pane's own process is pid 0; a process that is no descendant of it
\* hangs under pid OtherRoot.
PanePid == 0
OtherRoot == 99

\* processes reached from the pane in at most n steps down the table
RECURSIVE Below(_, _)
Below(table, n) ==
    IF n = 0 THEN {PanePid}
    ELSE LET up == Below(table, n - 1)
         IN  up \cup {p \in 1..Len(table) : table[p].alive /\ table[p].parent \in up}

\* processChildren that stops at the immediate children
ProcessChildren_ImmediateOnly(procs) ==
    IF ~procs.ok THEN [ok |-> FALSE, cmds |-> {}]
    ELSE [ok |-> TRUE,
          cmds |-> {procs.table[p].cmd :
                       p \in {q \in 1..Len(procs.table) :
                                 procs.table[q].alive /\ procs.table[q].parent = PanePid}}]

\* processChildren(pane): the command names of the immediate and transitive
\* children, or a failure
ProcessChildren(procs) ==
    IF ~procs.ok THEN [ok |-> FALSE, cmds |-> {}]
    ELSE [ok |-> TRUE,
          cmds |-> {procs.table[p].cmd :
                       p \in Below(procs.table, Len(procs.table)) \ {PanePid}}]

\* What the child-process lookup of a pane can answer: a failure, or the
\* command names of the shell's children.
ChildLookups ==
    { [ok |-> FALSE, cmds |-> {}],
      [ok |-> TRUE, cmds |-> {}],
      [ok |-> TRUE, cmds |-> {StrVim}],
      [ok |-> TRUE, cmds |-> {StrVim, StrClaude}] }

\* tmux.IsClaudeRunning(w), given what the child lookup answers when asked
IsClaudeRunning(w, kids) ==
    \/ LooksLikeClaude(w.Command)
    \/ /\ IsShell(w.Command)
       /\ kids.ok
       /\ \E c \in kids.cmds : LooksLikeClaude(c)

\* What became of the child lookup in one call of the classifier: not made
\* (the command decides), answered, or failed
LookupOf(w, kids) ==
    IF LooksLikeClaude(w.Command) \/ ~IsShell(w.Command) THEN "none"
    ELSE IF kids.ok THEN "ok" ELSE "failed"

\* What one sample of the pane's pending input can answer.
ProbeAnswers == {"busy", "idle", "error"}

\* tmux.HasPendingInput(target): the (bool, error) pair of one sample
HasPendingInput(answer) ==
    [pending |-> answer = "busy", failed |-> answer = "error"]

\* What tmux.AddMessage(target, message) can answer.
SendAnswers == {"ok", "error"}

----------------------------------------------------------------------------
\* The inputs

NameW1 == <<"w", "1">>
NameM == <<"m">>
NameOne == <<"1">>

WindowKinds ==
    { [Name |-> NameW1, Command |-> StrClaude],
      [Name |-> NameM, Command |-> StrBash],
      [Name |-> NameOne, Command |-> StrVim] }

\* tmux numbers the windows of a session; ListWindows reports them in
\* ascending index order.
WindowLists ==
    UNION { { [k \in 1..n |-> [Index |-> k - 1, Name |-> f[k].Name,
                               Command |-> f[k].Command]] :
              f \in [1..n -> WindowKinds] } : n \in 0..MaxWindows }

WindowFlagChoices == { <<>>, <<NameW1, NameOne>> }
PatternChoices == { <<>>, <<"w", "?">>, <<"1", "*">> }
SessionChoices == { "", "work", "swarm" }

\* not inside tmux, or inside session "work" in its window 0
Callers ==
    { [inside |-> FALSE, session |-> "", window |-> -1],
      [inside |-> TRUE, session |-> "work", window |-> 0] }

NoLog == [cls |-> "none", lookup |-> "none", probes |-> <<>>, delays |-> 0,
          sends |-> <<>>, sentTo |-> <<>>, outcome |-> "none"]

\* no call of the classifier on its own is under way
ClassifierIdle ==
    /\ clsWindow = [Index |-> 0, Name |-> <<>>, Command |-> <<>>]
    /\ clsProcs = [ok |-> TRUE, table |-> <<>>]
    /\ clsVerdict = "none"
    /\ clsPc = "idle"

Init ==
    /\ ClassifierIdle
    /\ windowFlags \in WindowFlagChoices
    /\ sessionFlag \in SessionChoices
    /\ patternFlag \in PatternChoices
    /\ anyFlag \in BOOLEAN
    /\ allFlag \in BOOLEAN
    /\ dryRunFlag \in BOOLEAN
    /\ forceFlag \in BOOLEAN
    /\ caller \in Callers
    /\ session = ""
    /\ currentWindowIndex = 0
    /\ windows = <<>>
    /\ targets = <<>>
    /\ idx = 0
    /\ attempt = 0
    /\ hasPending = FALSE
    /\ succeeded = 0 /\ failed = 0 /\ skippedTyping = 0 /\ skippedNoClaude = 0
    /\ pc = "start"
    /\ err = ""
    /\ stderrNoWindows = FALSE
    /\ shown = <<>>
    /\ calls = <<>>
    /\ log = <<>>

----------------------------------------------------------------------------
\* runAdd, step by step

Exit(e) ==
    /\ err' = e
    /\ pc' = "done"

\* SelfIndex with the caller's window kept when a session is named with -s
SelfIndex_KeepsCaller ==
    IF caller.inside THEN caller.window ELSE -1

\* The window to exclude: the caller's, or -1 when a session is named with
\* -s or the command runs outside tmux.
SelfIndex ==
    IF caller.inside /\ sessionFlag = "" THEN caller.window ELSE -1

Call(name, answer) == [call |-> name, answer |-> answer]

\* if sessionFlag == "" { return fmt.Errorf("not inside tmux; ...") }
NoSessionGiven == sessionFlag = ""

\* Determine session
DetermineSession ==
    /\ pc = "start"
    /\ IF caller.inside
       THEN \E ctxOk \in BOOLEAN :
              /\ calls' = calls \o <<Call("IsInsideTmux", "yes"),
                                     Call("GetCurrentContext",
                                          IF ctxOk THEN "ok" ELSE "error")>>
              /\ IF ~ctxOk
                 THEN /\ Exit("failed to get tmux context")
                      /\ UNCHANGED <<classifier, session, currentWindowIndex>>
                 ELSE /\ session' = (IF sessionFlag # "" THEN sessionFlag
                                     ELSE caller.session)
                      /\ currentWindowIndex' = SelfIndex
                      /\ pc' = "verify"
                      /\ err' = err
       ELSE /\ calls' = Append(calls, Call("IsInsideTmux", "no"))
            /\ IF NoSessionGiven
               THEN /\ Exit("not inside tmux")
                    /\ UNCHANGED <<classifier, session, currentWindowIndex>>
               ELSE /\ session' = sessionFlag
                    /\ currentWindowIndex' = SelfIndex
                    /\ pc' = "verify"
                    /\ err' = err
    /\ UNCHANGED <<classifier, flags, caller, windows, targets, idx, attempt, hasPending,
                   counters, stderrNoWindows, shown, log>>

\* SessionMissing with the check of the session left out
SessionMissing_Never(exists) == FALSE

\* if !tmux.SessionExists(session) { return fmt.Errorf(...) }
SessionMissing(exists) == ~exists

\* Verify session exists
VerifySession ==
    /\ pc = "verify"
    /\ \E exists \in BOOLEAN :
         /\ calls' = Append(calls, Call("SessionExists",
                                        IF exists THEN "yes" ELSE "no"))
         /\ IF SessionMissing(exists)
            THEN Exit("session does not exist")
            ELSE pc' = "list" /\ err' = err
    /\ UNCHANGED <<classifier, flags, caller, locals, counters, stderrNoWindows, shown, log>>

\* The window the command runs in is a window of its own session.
Listable(ws) ==
    (caller.inside /\ session = caller.session) =>
        \E k \in 1..Len(ws) : ws[k].Index = caller.window

\* Get all windows
ListWindows ==
    /\ pc = "list"
    /\ \/ /\ calls' = Append(calls, Call("ListWindows", "error"))
          /\ Exit("failed to list windows")
          /\ UNCHANGED windows
       \/ /\ calls' = Append(calls, Call("ListWindows", "ok"))
          /\ \E ws \in WindowLists : Listable(ws) /\ windows' = ws
          /\ pc' = "filter"
          /\ err' = err
    /\ UNCHANGED <<classifier, flags, caller, session, currentWindowIndex, targets, idx,
                   attempt, hasPending, counters, stderrNoWindows, shown, log>>

\* Exclude current window unless --all is set
ExcludedAsSelf(w) ==
    ~allFlag /\ currentWindowIndex >= 0 /\ w.Index = currentWindowIndex

\* Filter by specific window names if provided
FoundInWindowFlags(w) ==
    \E k \in 1..Len(windowFlags) :
        w.Name = windowFlags[k] \/ Itoa(w.Index) = windowFlags[k]

\* ExcludedByWindowFlags with the -w list ignored
ExcludedByWindowFlags_Never(w) == FALSE

ExcludedByWindowFlags(w) ==
    Len(windowFlags) > 0 /\ ~FoundInWindowFlags(w)

\* Filter by pattern if provided
ExcludedByPattern(w) ==
    patternFlag # <<>> /\ ~MatchPattern(w.Name, patternFlag)

KeepWindow(w) ==
    /\ ~ExcludedAsSelf(w)
    /\ ~ExcludedByWindowFlags(w)
    /\ ~ExcludedByPattern(w)

\* NoTargets with the early return left out
NoTargets_Never(ts) == FALSE

\* if len(targets) == 0 { ...; return nil }
NoTargets(ts) == Len(ts) = 0

\* ShowsOnly with --dry-run ignored
ShowsOnly_Never == FALSE

\* if dryRunFlag { ...; return nil }
ShowsOnly == dryRunFlag

\* Filter windows; no windows; the branch to the dry run or to delivery
FilterWindows ==
    /\ pc = "filter"
    /\ targets' = SelectSeq(windows, KeepWindow)
    /\ log' = [k \in 1..Len(targets') |-> NoLog]
    /\ IF NoTargets(targets')
       THEN /\ stderrNoWindows' = TRUE
            /\ Exit("")
            /\ idx' = idx
       ELSE /\ stderrNoWindows' = stderrNoWindows
            /\ err' = err
            /\ IF ShowsOnly
               THEN pc' = "dryrun" /\ idx' = idx
               ELSE pc' = "deliver" /\ idx' = 1
    /\ UNCHANGED <<classifier, calls, flags, caller, session, currentWindowIndex, windows,
                   attempt, hasPending, counters, shown>>

\* Dry run: show targets and exit
DryRun ==
    /\ pc = "dryrun"
    /\ \E kids \in [1..Len(targets) -> ChildLookups] :
         shown' = [k \in 1..Len(targets) |->
                     [Index |-> targets[k].Index, Name |-> targets[k].Name,
                      claude |-> IsClaudeRunning(targets[k], kids[k])]]
    /\ Exit("")
    /\ UNCHANGED <<classifier, calls, flags, caller, locals, counters, stderrNoWindows, log>>

Record(field, value) == [log EXCEPT ![idx][field] = value]

Finish(lg, outcome) == [lg EXCEPT ![idx].outcome = outcome]

\* SkipNoClaude with the agent check left out
SkipNoClaude_Never(claude) == FALSE

\* Verify Claude is running in the target window
SkipNoClaude(claude) == ~anyFlag /\ ~claude

\* ChecksPending with --force ignored
ChecksPending_Always == TRUE

\* Check for pending input (user is typing) unless --force is set
ChecksPending == ~forceFlag

\* for _, w := range targets: the agent check, then the branch on --force
BeginTarget ==
    /\ pc = "deliver"
    /\ idx <= Len(targets)
    /\ \E kids \in ChildLookups :
         LET claude == IsClaudeRunning(targets[idx], kids)
             lg == IF anyFlag THEN log
                   ELSE [log EXCEPT ![idx].cls = IF claude THEN "yes" ELSE "no",
                                    ![idx].lookup = LookupOf(targets[idx], kids)]
         IN  IF SkipNoClaude(claude)
             THEN /\ skippedNoClaude' = skippedNoClaude + 1
                  /\ log' = Finish(lg, "SkippedNoAgent")
                  /\ idx' = idx + 1
                  /\ pc' = "deliver"
             ELSE /\ skippedNoClaude' = skippedNoClaude
                  /\ log' = lg
                  /\ idx' = idx
                  /\ pc' = IF ChecksPending THEN "probe" ELSE "send"
    /\ attempt' = 0
    /\ hasPending' = FALSE
    /\ UNCHANGED <<classifier, calls, flags, caller, session, currentWindowIndex, windows, targets,
                   succeeded, failed, skippedTyping, err, stderrNoWindows, shown>>

\* SleepsAfter with the delay taken after every busy sample
SleepsAfter_Always(a) == TRUE

\* if attempt < maxRetries-1 { time.Sleep(retryDelay) }
SleepsAfter(a) == a < maxRetries - 1

\* LoopsAgain with the loop bound off by one
LoopsAgain_OneMore(a) == a + 1 <= maxRetries

\* LoopsAgain with twice the retries
LoopsAgain_TwiceAsLong(a) == a + 1 < 2 * maxRetries

\* for attempt := 0; attempt < maxRetries; attempt++: the loop condition
\* after the increment
LoopsAgain(a) == a + 1 < maxRetries

\* PendingOf with a failed sample counted as pending input
PendingOf_ErrorIsBusy(answer) ==
    HasPendingInput(answer).pending \/ HasPendingInput(answer).failed

\* hasPending, _ = tmux.HasPendingInput(target)
PendingOf(answer) == HasPendingInput(answer).pending

\* Defers with the skip given up once an earlier send has failed
Defers_UnlessEarlierFailure(hp) == hp /\ failed = 0

\* Defers with the skip left out: the busy target is sent to
Defers_Never(hp) == FALSE

\* if hasPending { skippedTyping++; continue }
Defers(hp) == hp

\* One iteration of the retry loop and, when the loop ends, the test of
\* hasPending that follows it.
ProbeStep ==
    /\ pc = "probe"
    /\ \E answer \in ProbeAnswers :
         LET hp == PendingOf(answer)
             lg1 == Record("probes", Append(log[idx].probes, answer))
             lg2 == IF hp /\ SleepsAfter(attempt)
                    THEN [lg1 EXCEPT ![idx].delays = @ + 1]
                    ELSE lg1
         IN  /\ hasPending' = hp
             /\ IF hp /\ LoopsAgain(attempt)
                THEN /\ attempt' = attempt + 1
                     /\ log' = lg2
                     /\ pc' = "probe"
                     /\ UNCHANGED <<classifier, idx, skippedTyping>>
                ELSE /\ attempt' = attempt
                     /\ IF Defers(hp)
                        THEN /\ skippedTyping' = skippedTyping + 1
                             /\ log' = Finish(lg2, "DeferredBusy")
                             /\ idx' = idx + 1
                             /\ pc' = "deliver"
                        ELSE /\ log' = lg2
                             /\ pc' = "send"
                             /\ UNCHANGED <<classifier, idx, skippedTyping>>
    /\ UNCHANGED <<classifier, calls, flags, caller, session, currentWindowIndex, windows, targets,
                   succeeded, failed, skippedNoClaude, err, stderrNoWindows, shown>>

\* SendStep with a send error returned at once
SendStep_AbortsOnError ==
    /\ pc = "send"
    /\ \E answer \in SendAnswers :
         LET lg == [log EXCEPT ![idx].sends = Append(@, answer)]
         IN  IF answer = "error"
             THEN /\ failed' = failed + 1
                  /\ succeeded' = succeeded
                  /\ log' = [lg EXCEPT ![idx].outcome = "Failed"]
                  /\ idx' = idx
                  /\ Exit("messages failed")
             ELSE /\ succeeded' = succeeded + 1
                  /\ failed' = failed
                  /\ log' = [lg EXCEPT ![idx].outcome = "Sent"]
                  /\ idx' = idx + 1
                  /\ pc' = "deliver"
                  /\ err' = err
    /\ UNCHANGED <<classifier, calls, flags, caller, session, currentWindowIndex, windows, targets,
                   attempt, hasPending, skippedTyping, skippedNoClaude,
                   stderrNoWindows, shown>>

\* SendStep with a failed send counted in succeeded as well
SendStep_ErrorCountedTwice ==
    /\ pc = "send"
    /\ \E answer \in SendAnswers :
         LET lg == [log EXCEPT ![idx].sends = Append(@, answer)]
         IN  IF answer = "error"
             THEN /\ failed' = failed + 1
                  /\ succeeded' = succeeded + 1
                  /\ log' = [lg EXCEPT ![idx].outcome = "Failed"]
             ELSE /\ succeeded' = succeeded + 1
                  /\ failed' = failed
                  /\ log' = [lg EXCEPT ![idx].outcome = "Sent"]
    /\ idx' = idx + 1
    /\ pc' = "deliver"
    /\ UNCHANGED <<classifier, calls, flags, caller, session, currentWindowIndex, windows,
                   targets, attempt, hasPending, skippedTyping, skippedNoClaude,
                   err, stderrNoWindows, shown>>

\* SendStep with the target after the one sent to passed over
SendStep_SkipsNext ==
    /\ pc = "send"
    /\ \E answer \in SendAnswers :
         LET lg == [log EXCEPT ![idx].sends = Append(@, answer)]
         IN  IF answer = "error"
             THEN /\ failed' = failed + 1
                  /\ succeeded' = succeeded
                  /\ log' = [lg EXCEPT ![idx].outcome = "Failed"]
             ELSE /\ succeeded' = succeeded + 1
                  /\ failed' = failed
                  /\ log' = [lg EXCEPT ![idx].outcome = "Sent"]
    /\ idx' = idx + 2
    /\ pc' = "deliver"
    /\ UNCHANGED <<classifier, calls, flags, caller, session, currentWindowIndex, windows,
                   targets, attempt, hasPending, skippedTyping, skippedNoClaude,
                   err, stderrNoWindows, shown>>

\* target := fmt.Sprintf("%s:%d", session, w.Index)
TargetOf(s, w) == <<s, ":">> \o Itoa(w.Index)

\* SendStep with a failed send tried a second time
SendStep_RetriesOnce ==
    /\ pc = "send"
    /\ \E answer \in SendAnswers :
         LET lg == [log EXCEPT ![idx].sends = Append(@, answer),
                               ![idx].sentTo = Append(@, TargetOf(session, targets[idx]))]
         IN  IF answer = "error" /\ log[idx].sends = <<>>
             THEN /\ log' = lg
                  /\ UNCHANGED <<succeeded, failed, idx, pc>>
             ELSE /\ IF answer = "error"
                     THEN /\ failed' = failed + 1
                          /\ succeeded' = succeeded
                          /\ log' = [lg EXCEPT ![idx].outcome = "Failed"]
                     ELSE /\ succeeded' = succeeded + 1
                          /\ failed' = failed
                          /\ log' = [lg EXCEPT ![idx].outcome = "Sent"]
                  /\ idx' = idx + 1
                  /\ pc' = "deliver"
    /\ UNCHANGED <<classifier, calls, flags, caller, session, currentWindowIndex, windows,
                   targets, attempt, hasPending, skippedTyping, skippedNoClaude,
                   err, stderrNoWindows, shown>>

\* if err := tmux.AddMessage(target, message); err != nil
SendStep ==
    /\ pc = "send"
    /\ \E answer \in SendAnswers :
         LET lg == [log EXCEPT ![idx].sends = Append(@, answer),
                               ![idx].sentTo = Append(@, TargetOf(session, targets[idx]))]
         IN  IF answer = "error"
             THEN /\ failed' = failed + 1
                  /\ succeeded' = succeeded
                  /\ log' = Finish(lg, "Failed")
             ELSE /\ succeeded' = succeeded + 1
                  /\ failed' = failed
                  /\ log' = Finish(lg, "Sent")
    /\ idx' = idx + 1
    /\ pc' = "deliver"
    /\ UNCHANGED <<classifier, calls, flags, caller, session, currentWindowIndex, windows, targets,
                   attempt, hasPending, skippedTyping, skippedNoClaude, err,
                   stderrNoWindows, shown>>

\* ReturnsError with a target skipped for having no agent counted as a failure
ReturnsError_OnNoClaude == failed > 0 \/ skippedNoClaude > 0

\* ReturnsError with the skipped targets counted as failures
ReturnsError_OnSkipped == failed > 0 \/ skippedTyping + skippedNoClaude > 0

\* if failed > 0 { return fmt.Errorf(...) }
ReturnsError == failed > 0

\* Report results
Report ==
    /\ pc = "deliver"
    /\ idx > Len(targets)
    /\ Exit(IF ReturnsError THEN "messages failed" ELSE "")
    /\ UNCHANGED <<classifier, calls, flags, caller, locals, counters, stderrNoWindows, shown, log>>

Next ==
    \/ DetermineSession
    \/ VerifySession
    \/ ListWindows
    \/ FilterWindows
    \/ DryRun
    \/ BeginTarget
    \/ ProbeStep
    \/ SendStep
    \/ Report

Spec == Init /\ [][Next]_vars

\* runAdd is one sequential function: as long as every call it makes returns,
\* it takes its next step.
FairSpec == Spec /\ WF_vars(Next)

----------------------------------------------------------------------------
\* The classifier on its own: one call of tmux.IsClaudeRunning on a window and
\* a fabricated process tree.

StrClaudeCaps == <<"C", "l", "a", "u", "d", "e">>
StrNodeCaps == <<"N", "O", "D", "E">>
StrVersion == <<"2", ".", "1", ".", "2", "5">>
StrTwoParts == <<"2", ".", "1">>
StrPython == <<"p", "y", "t", "h", "o", "n">>

\* foreground commands a pane can report
PaneCommands ==
    { StrClaude, StrClaudeCaps, StrNode, StrNodeCaps, StrVersion, StrTwoParts,
      StrBash, StrZsh, StrSh, StrVim, StrPython }

\* command names of the processes in a tree
ChildCommands == { StrVim, StrClaude, StrNodeCaps, StrVersion }

\* a slot of the process table: no process, or one with a parent and a command;
\* the parent is the pane, an earlier process, or a process outside the pane
ProcsAt(p) ==
    { [alive |-> FALSE, parent |-> OtherRoot, cmd |-> <<>>] }
    \cup { [alive |-> TRUE, parent |-> q, cmd |-> c] :
              q \in (0..(p - 1)) \cup {OtherRoot}, c \in ChildCommands }

\* process tables of n slots
RECURSIVE ProcTables(_)
ProcTables(n) ==
    IF n = 0 THEN { <<>> }
    ELSE { Append(t, e) : t \in ProcTables(n - 1), e \in ProcsAt(n) }

ClassifyInit ==
    /\ clsWindow \in { [Index |-> 0, Name |-> NameW1, Command |-> c] : c \in PaneCommands }
    /\ clsProcs \in { [ok |-> o, table |-> t] :
                         o \in BOOLEAN, t \in ProcTables(MaxChildren) }
    /\ clsVerdict = "none"
    /\ clsPc = "ready"
    \* no run of the command is under way
    /\ windowFlags = <<>> /\ sessionFlag = "" /\ patternFlag = <<>>
    /\ anyFlag = FALSE /\ allFlag = FALSE /\ dryRunFlag = FALSE /\ forceFlag = FALSE
    /\ caller = [inside |-> FALSE, session |-> "", window |-> -1]
    /\ session = "" /\ currentWindowIndex = 0
    /\ windows = <<>> /\ targets = <<>>
    /\ idx = 0 /\ attempt = 0 /\ hasPending = FALSE
    /\ succeeded = 0 /\ failed = 0 /\ skippedTyping = 0 /\ skippedNoClaude = 0
    /\ pc = "off" /\ err = "" /\ stderrNoWindows = FALSE
    /\ shown = <<>> /\ calls = <<>> /\ log = <<>>

\* tmux.IsClaudeRunning(w), the process lookup answering from the tree
Classify ==
    /\ clsPc = "ready"
    /\ clsVerdict' = IsClaudeRunning(clsWindow, ProcessChildren(clsProcs))
    /\ clsPc' = "done"
    /\ UNCHANGED <<clsWindow, clsProcs, flags, caller, locals, counters, pc, err,
                   stderrNoWindows, shown, calls, log>>

ClassifyNext == Classify

ClassifySpec == ClassifyInit /\ [][ClassifyNext]_vars

----------------------------------------------------------------------------
\* Vocabulary of the properties

Targets == 1..Len(log)

Finished(k) == log[k].outcome # "none"

AllBusy(ps) == \A j \in 1..Len(ps) : ps[j] = "busy"

\* every sample but the last reported busy
OnlyLastNotBusy(ps) == \A j \in 1..(Len(ps) - 1) : ps[j] = "busy"

\* the busy samples that are not the third one
BusyBeforeLast(ps) == {j \in 1..Len(ps) : ps[j] = "busy" /\ j < 3}

\* runAdd returned from the report that follows the delivery loop
Delivered == pc = "done" /\ idx > Len(targets) /\ Len(targets) > 0

\* the outcome of target k as its own answers decide it
OwnOutcome(k) ==
    IF ~anyFlag /\ log[k].cls = "no" THEN "SkippedNoAgent"
    ELSE IF ~forceFlag /\ Len(log[k].probes) = 3 /\ AllBusy(log[k].probes)
         THEN "DeferredBusy"
    ELSE IF log[k].sends = <<"ok">> THEN "Sent"
    ELSE IF log[k].sends = <<"error">> THEN "Failed"
    ELSE "none"

----------------------------------------------------------------------------
\* C1 (as stated): every target processed without --force has between one
\* and three samples of the pending-input probe, none after a sample that
\* reported not-busy, and is deferred as busy exactly when three samples
\* reported busy.
C1_EveryTargetProbed ==
    \A k \in Targets :
        (Finished(k) /\ ~forceFlag) =>
            /\ Len(log[k].probes) >= 1
            /\ Len(log[k].probes) <= 3
            /\ OnlyLastNotBusy(log[k].probes)
            /\ (log[k].outcome = "DeferredBusy")
                   <=> (Len(log[k].probes) = 3 /\ AllBusy(log[k].probes))

\* C1 (amended): the same for every target that passed the agent check; a
\* target skipped for having no agent is never sampled.  At every moment no
\* target has more than three samples or a sample after a not-busy one.
C1_DetectorSamples ==
    /\ \A k \in Targets :
         /\ Len(log[k].probes) <= 3
         /\ OnlyLastNotBusy(log[k].probes)
         /\ forceFlag => log[k].probes = <<>>
         /\ log[k].outcome = "SkippedNoAgent" => log[k].probes = <<>>
    /\ \A k \in Targets :
         (Finished(k) /\ ~forceFlag /\ log[k].outcome # "SkippedNoAgent") =>
            /\ Len(log[k].probes) >= 1
            /\ (log[k].outcome = "DeferredBusy")
                   <=> (Len(log[k].probes) = 3 /\ AllBusy(log[k].probes))

C1_Witness ==
    \E k \in Targets :
        /\ ~forceFlag
        /\ log[k].outcome = "DeferredBusy"
        /\ log[k].probes = <<"busy", "busy", "busy">>

\* C2: a delay is taken only after a busy sample that is not the third:
\* busy, busy, not-busy ends not-busy after exactly 2 delays, and busy,
\* busy, busy ends busy after exactly 2 delays.
C2_DelaysBetweenAttempts ==
    \A k \in Targets :
        /\ log[k].delays = Cardinality(BusyBeforeLast(log[k].probes))
        /\ (Len(log[k].probes) = 3 /\ AllBusy(log[k].probes)) =>
              log[k].delays = 2 /\ log[k].outcome = "DeferredBusy"
        /\ (Len(log[k].probes) = 3 /\ ~AllBusy(log[k].probes)) =>
              /\ log[k].delays = 2
              /\ log[k].outcome # "DeferredBusy"
              /\ (Finished(k) \/ (k = idx /\ pc = "send" /\ ~hasPending))

C2_Witness ==
    \E k \in Targets :
        /\ log[k].probes = <<"busy", "busy", "idle">>
        /\ log[k].delays = 2
        /\ log[k].outcome = "Sent"

\* C3: a sample that fails is taken as not-busy: it ends the sampling, its
\* target is not deferred as busy, the send is attempted for it, and the
\* run goes on to the report.
C3_ProbeErrorIsNotBusy ==
    \A k \in Targets :
        (\E j \in 1..Len(log[k].probes) : log[k].probes[j] = "error") =>
            /\ log[k].probes[Len(log[k].probes)] = "error"
            /\ OnlyLastNotBusy(log[k].probes)
            /\ log[k].outcome # "DeferredBusy"
            /\ \/ log[k].sends # <<>>
               \/ (k = idx /\ pc = "send" /\ ~hasPending)
            /\ pc = "done" => (Delivered /\ (err # "" => failed > 0))

C3_Witness ==
    \E k \in Targets :
        /\ log[k].probes = <<"busy", "error">>
        /\ log[k].outcome = "Sent"
        /\ Delivered

\* C4: a send error is counted in failed and aborts nothing: every target
\* after it still gets the outcome its own answers decide.
C4_SendErrorIsLocal ==
    /\ failed = Cardinality({k \in Targets : log[k].sends = <<"error">>})
    /\ \A k \in Targets :
         log[k].sends = <<"error">> =>
            /\ log[k].outcome = "Failed"
            /\ idx > k
            /\ pc = "done" =>
                  \A m \in Targets :
                      Finished(m) /\ log[m].outcome = OwnOutcome(m)

C4_Witness ==
    /\ Delivered
    /\ Len(log) = 2
    /\ log[1].sends = <<"error">>
    /\ log[2].outcome = "Sent"
    /\ failed = 1 /\ succeeded = 1

\* runAdd returned after the session was resolved and its windows listed
ResolvedAndDone ==
    pc = "done" /\ (stderrNoWindows \/ shown # <<>> \/ idx > 0)

\* C5: once resolution has succeeded, runAdd returns an error if and only
\* if a send returned an error; skipped and deferred targets never make it
\* fail.
C5_FailsIffSendFailed ==
    ResolvedAndDone =>
        /\ (err # "") <=> (failed > 0)
        /\ (err # "") <=> (\E k \in Targets : log[k].sends = <<"error">>)

C5_Witness ==
    /\ Delivered
    /\ err = ""
    /\ skippedTyping = 1 /\ skippedNoClaude = 1
    /\ failed = 0

\* C6: a target whose three samples all reported busy is deferred: nothing
\* is sent to it, it is counted in skippedTyping and not in failed, and the
\* loop goes on to the next target.
C6_BusyTargetDeferred ==
    /\ skippedTyping = Cardinality({k \in Targets : log[k].outcome = "DeferredBusy"})
    /\ failed = Cardinality({k \in Targets : log[k].outcome = "Failed"})
    /\ \A k \in Targets :
         (~forceFlag /\ Len(log[k].probes) = 3 /\ AllBusy(log[k].probes)) =>
            /\ log[k].outcome = "DeferredBusy"
            /\ log[k].sends = <<>>
            /\ idx > k
            /\ pc = "done" => \A m \in Targets : Finished(m)

C6_Witness ==
    /\ Len(log) = 2
    /\ log[1].outcome = "DeferredBusy"
    /\ log[1].sends = <<>>
    /\ log[2].outcome = "Sent"
    /\ skippedTyping = 1 /\ failed = 0

\* C7: without --any, a target the classifier rejects at delivery is
\* skipped with no sample and no send, so every send goes to a window that
\* classified as an agent; with --any no target is skipped for having no
\* agent.
C7_NonAgentNeverSent ==
    /\ skippedNoClaude =
           Cardinality({k \in Targets : log[k].outcome = "SkippedNoAgent"})
    /\ ~anyFlag =>
          \A k \in Targets :
              /\ log[k].cls = "no" =>
                    /\ log[k].outcome = "SkippedNoAgent"
                    /\ log[k].probes = <<>>
                    /\ log[k].sends = <<>>
              /\ (log[k].sends # <<>> \/ log[k].probes # <<>>) => log[k].cls = "yes"
    /\ anyFlag =>
          /\ skippedNoClaude = 0
          /\ \A k \in Targets : log[k].outcome # "SkippedNoAgent"

C7_Witness ==
    /\ ~anyFlag
    /\ Len(log) = 2
    /\ log[1].cls = "no" /\ log[1].outcome = "SkippedNoAgent"
    /\ log[2].cls = "yes" /\ log[2].outcome = "Sent"

\* the four filters of the claim, given what the child lookup of each
\* window answers at resolution
PassesFourFilters(w, kids) ==
    /\ KeepWindow(w)
    /\ anyFlag \/ IsClaudeRunning(w, kids[w.Index])

\* C8 (as stated): the target list is the windows that pass the self, name,
\* pattern and agent filters, in enumeration order: whatever the child
\* lookups answer, without --any it holds no window the classifier rejects.
C8_TargetsPassFourFilters ==
    pc \notin {"start", "verify", "list", "filter"} =>
        \E kids \in [0..(Len(windows) - 1) -> ChildLookups] :
            LET Pass(w) == PassesFourFilters(w, kids)
            IN  targets = SelectSeq(windows, Pass)

\* C9 (as stated): run from inside tmux without --all, nothing is ever sent
\* to the window the command was run from.
C9_CallerWindowNeverSent ==
    (caller.inside /\ ~allFlag) =>
        \A k \in Targets :
            (session = caller.session /\ targets[k].Index = caller.window) =>
                log[k].sends = <<>>

\* the name and pattern filters alone
PassesNameAndPattern(w) ==
    /\ Len(windowFlags) = 0
       \/ \E k \in 1..Len(windowFlags) :
              windowFlags[k] = w.Name \/ windowFlags[k] = Itoa(w.Index)
    /\ patternFlag = <<>> \/ MatchPattern(w.Name, patternFlag)

----------------------------------------------------------------------------
\* More vocabulary: the resolution calls and the tallies

Called(name) == \E j \in 1..Len(calls) : calls[j].call = name

Answered(name, answer) == \E j \in 1..Len(calls) : calls[j] = Call(name, answer)

\* no classifier call, no sample, no delay, no send, no tally
NothingDelivered ==
    /\ \A k \in Targets : log[k] = NoLog
    /\ shown = <<>>
    /\ succeeded = 0 /\ failed = 0 /\ skippedTyping = 0 /\ skippedNoClaude = 0

\* the filter loop has run over the windows ListWindows returned
Filtered == Answered("ListWindows", "ok") /\ pc # "filter"

Delivering == pc \in {"deliver", "probe", "send"}

Tally == succeeded + skippedNoClaude + skippedTyping + failed

WithOutcome(o) == {k \in Targets : log[k].outcome = o}

\* C11: the three resolution errors end the run with an error before any
\* later call: outside tmux with no -s no session is checked, a missing
\* session is never enumerated, and in all three cases there is no
\* classifier call, no sample and no send.
C11_ResolutionErrorsFatal ==
    /\ (Answered("IsInsideTmux", "no") /\ sessionFlag = "") =>
          /\ pc = "done" /\ err = "not inside tmux"
          /\ ~Called("SessionExists") /\ ~Called("ListWindows")
          /\ log = <<>> /\ NothingDelivered
    /\ Answered("SessionExists", "no") =>
          /\ pc = "done" /\ err = "session does not exist"
          /\ ~Called("ListWindows")
          /\ log = <<>> /\ NothingDelivered
    /\ Answered("ListWindows", "error") =>
          /\ pc = "done" /\ err = "failed to list windows"
          /\ log = <<>> /\ NothingDelivered

C11_Witness ==
    /\ pc = "done"
    /\ Answered("SessionExists", "no")
    /\ err = "session does not exist"

\* C12: an empty target list ends the run at once with no error, with and
\* without --dry-run: nothing is listed, sampled, delayed or sent.
C12_NoTargetsIsSuccess ==
    (Filtered /\ Len(targets) = 0) =>
        /\ pc = "done"
        /\ err = ""
        /\ stderrNoWindows
        /\ idx = 0
        /\ NothingDelivered

C12_Witness ==
    /\ Filtered
    /\ Len(windows) = 2
    /\ Len(targets) = 0
    /\ dryRunFlag
    /\ pc = "done"

\* C13: with --dry-run nothing is delivered: no sample, no delay, no send,
\* no tally changes, and the run ends without error after listing the
\* resolved targets in order.
C13_DryRunDeliversNothing ==
    dryRunFlag =>
        /\ \A k \in Targets : log[k] = NoLog
        /\ succeeded = 0 /\ failed = 0 /\ skippedTyping = 0 /\ skippedNoClaude = 0
        /\ ~Delivering
        /\ idx = 0
        /\ (pc = "done" /\ Filtered) =>
              /\ err = ""
              /\ Len(targets) > 0 =>
                    /\ Len(shown) = Len(targets)
                    /\ \A k \in 1..Len(targets) :
                          /\ shown[k].Index = targets[k].Index
                          /\ shown[k].Name = targets[k].Name

C13_Witness ==
    /\ dryRunFlag
    /\ pc = "done"
    /\ Len(targets) = 2
    /\ Len(shown) = 2

\* C14: with --force the pending-input check is skipped: no sample, no
\* delay, no target deferred as busy, and every target that passes the
\* agent check is sent to.
C14_ForceSkipsPendingCheck ==
    forceFlag =>
        /\ pc # "probe"
        /\ skippedTyping = 0
        /\ \A k \in Targets :
             /\ log[k].probes = <<>>
             /\ log[k].delays = 0
             /\ log[k].outcome # "DeferredBusy"
             /\ (k < idx /\ (anyFlag \/ log[k].cls = "yes")) =>
                   Len(log[k].sends) = 1

C14_Witness ==
    /\ forceFlag
    /\ ~anyFlag
    /\ Delivered
    /\ \E k \in Targets : log[k].cls = "yes" /\ log[k].sends = <<"ok">>

\* what holds of the tallies in every state
TalliesPartition ==
    /\ Len(log) = Len(targets)
    /\ succeeded = Cardinality(WithOutcome("Sent"))
    /\ failed = Cardinality(WithOutcome("Failed"))
    /\ skippedTyping = Cardinality(WithOutcome("DeferredBusy"))
    /\ skippedNoClaude = Cardinality(WithOutcome("SkippedNoAgent"))
    /\ Delivering => Tally = idx - 1
    /\ Delivered => Tally = Len(targets)

\* what holds of every step of the delivery loop
TallyStep ==
    Delivering =>
        /\ targets' = targets
        /\ \A k \in Targets : Finished(k) => log'[k].outcome = log[k].outcome
        /\ Tally' = Tally + Cardinality({k \in Targets : ~Finished(k) /\
                                             log'[k].outcome # "none"})
        /\ Tally' \in {Tally, Tally + 1}

\* C15: the four tallies partition the targets processed so far: their sum
\* is the number of targets with an outcome, each target adds one to
\* exactly one tally once, the target list is not changed during delivery,
\* and at the report the sum is the length of the target list.
C15_TalliesPartitionTargets == []TalliesPartition /\ [][TallyStep]_vars

C15_Witness ==
    /\ Delivered
    /\ Len(targets) = 2
    /\ succeeded = 1 /\ skippedTyping = 1
    /\ Tally = 2

\* C16: a failed child lookup makes the classifier answer false: without
\* --any the window is skipped for having no agent, the later targets are
\* still processed, and the run does not fail for it.
C16_LookupFailureIsNoMatch ==
    \A k \in Targets :
        log[k].lookup = "failed" =>
            /\ log[k].cls = "no"
            /\ log[k].outcome = "SkippedNoAgent"
            /\ log[k].probes = <<>> /\ log[k].sends = <<>>
            /\ idx > k
            /\ pc = "done" =>
                  /\ Delivered
                  /\ \A m \in Targets : Finished(m)
                  /\ (err # "") <=> (\E m \in Targets : log[m].sends = <<"error">>)

C16_Witness ==
    /\ Delivered
    /\ Len(log) = 2
    /\ log[1].lookup = "failed"
    /\ log[2].outcome = "Sent"
    /\ err = ""

\* the name or the decimal index of w is an entry of the -w list
InWindowList(w) ==
    \E j \in 1..Len(windowFlags) :
        windowFlags[j] = w.Name \/ windowFlags[j] = Itoa(w.Index)

IsTarget(w) == \E k \in 1..Len(targets) : targets[k] = w

\* C18: with a non-empty -w list only windows whose name or index is in the
\* list are targets and are sent to, whatever the other options, and a
\* listed window that fails the pattern or the self filter is no target.
C18_OnlyListedWindows ==
    Len(windowFlags) > 0 =>
        /\ \A k \in 1..Len(targets) : InWindowList(targets[k])
        /\ \A k \in Targets : log[k].sends # <<>> => InWindowList(targets[k])
        /\ Filtered =>
              \A j \in 1..Len(windows) :
                  LET w == windows[j]
                  IN  ( \/ (patternFlag # <<>> /\ ~MatchPattern(w.Name, patternFlag))
                        \/ (~allFlag /\ currentWindowIndex = w.Index) )
                      => ~IsTarget(w)

C18_Witness ==
    /\ Len(windowFlags) > 0
    /\ Len(windows) = 2
    /\ \E k \in Targets :
         /\ targets[k].Name = NameM
         /\ log[k].sends = <<"ok">>
    /\ \E j \in 1..Len(windows) : ~InWindowList(windows[j])

\* C19: delivery is sequential in target order: the targets with an outcome
\* are exactly those before the loop position, a target is not touched
\* before the one ahead of it has its outcome, and so at every moment the
\* targets with an outcome are a prefix of the list.
C19_SequentialPrefix ==
    \A k \in Targets :
        /\ Finished(k) <=> k < idx
        /\ k > idx => log[k] = NoLog
        /\ (k = idx /\ pc = "deliver") => log[k] = NoLog

C19_Witness ==
    /\ pc = "probe"
    /\ idx = 2
    /\ Finished(1)
    /\ log[2].probes = <<"busy">>

\* the answers target k got
OwnAnswers(k) == <<log[k].cls, log[k].probes, log[k].sends>>

\* C20: the outcome of a target is decided by its own classifier, sample
\* and send answers and the options alone, so two targets with the same
\* answers have the same outcome wherever they stand, and the tallies and
\* the error are those of the outcomes whatever their order.
C20_OutcomeIsOwn ==
    /\ \A k \in Targets : Finished(k) => log[k].outcome = OwnOutcome(k)
    /\ \A j, k \in Targets :
         (Finished(j) /\ Finished(k) /\ OwnAnswers(j) = OwnAnswers(k)) =>
             log[j].outcome = log[k].outcome
    /\ Delivered =>
          /\ succeeded = Cardinality({k \in Targets : OwnOutcome(k) = "Sent"})
          /\ failed = Cardinality({k \in Targets : OwnOutcome(k) = "Failed"})
          /\ skippedTyping =
                 Cardinality({k \in Targets : OwnOutcome(k) = "DeferredBusy"})
          /\ skippedNoClaude =
                 Cardinality({k \in Targets : OwnOutcome(k) = "SkippedNoAgent"})
          /\ (err # "") <=> (\E k \in Targets : OwnOutcome(k) = "Failed")

C20_Witness ==
    /\ Delivered
    /\ Len(log) = 2
    /\ log[1].outcome = "Failed"
    /\ log[2].outcome = "DeferredBusy"
    /\ log[2].probes = <<"busy", "busy", "busy">>

----------------------------------------------------------------------------
\* C17

\* the commands, among those a pane or a process reports here, that contain
\* the agent name or the interpreter name whatever the case, or are a version
AgentCommands == { StrClaude, StrClaudeCaps, StrNode, StrNodeCaps, StrVersion }

Shells == { StrBash, StrZsh, StrSh }

\* process p of the table is an immediate or a transitive child of the pane
RECURSIVE UnderPane(_, _)
UnderPane(table, p) ==
    /\ table[p].alive
    /\ \/ table[p].parent = PanePid
       \/ /\ table[p].parent \in 1..(p - 1)
          /\ UnderPane(table, table[p].parent)

\* some immediate or transitive child of the pane satisfies rule 1 or rule 2
HasAgentChild ==
    \E p \in 1..Len(clsProcs.table) :
        UnderPane(clsProcs.table, p) /\ clsProcs.table[p].cmd \in AgentCommands

Classified == clsPc = "done"

\* C17 as stated: the classifier answers true exactly when the foreground
\* command contains the agent or interpreter name whatever the case, or is a
\* version, or is a shell with an immediate or transitive child that does;
\* every other command, and a shell with no such child, gives false.
C17_TrueIffRuleMatches ==
    Classified =>
        clsVerdict = ( \/ clsWindow.Command \in AgentCommands
                       \/ clsWindow.Command \in Shells /\ HasAgentChild )

\* C17 amended: the children of a shell count only when the process lookup
\* answers; when the lookup fails a shell gives false whatever runs under it.
C17_TrueIffRuleMatchesLookup ==
    Classified =>
        clsVerdict = ( \/ clsWindow.Command \in AgentCommands
                       \/ /\ clsWindow.Command \in Shells
                          /\ clsProcs.ok
                          /\ HasAgentChild )

\* a shell whose only matching process is a child of a child is classified true
C17_Witness ==
    /\ Classified
    /\ clsWindow.Command = StrBash
    /\ clsProcs.ok
    /\ HasAgentChild
    /\ \A p \in 1..Len(clsProcs.table) :
           clsProcs.table[p].alive /\ clsProcs.table[p].parent = PanePid
               => clsProcs.table[p].cmd = StrVim
    /\ clsVerdict = TRUE

----------------------------------------------------------------------------
\* C21

\* the number of calls of tmux.AddMessage made for the first k targets
RECURSIVE SendsUpTo(_)
SendsUpTo(k) == IF k = 0 THEN 0 ELSE SendsUpTo(k - 1) + Len(log[k].sends)

TotalSends == SendsUpTo(Len(log))

\* C21: tmux.AddMessage is called at most once per target and only with
\* the address of that target, a window of the resolved list: a failed send
\* ends the target with no second send, and the number of sends is
\* succeeded + failed.
C21_AtMostOneSendPerTarget ==
    /\ \A k \in Targets :
         /\ Len(log[k].sends) <= 1
         /\ Len(log[k].sentTo) = Len(log[k].sends)
         /\ \A j \in 1..Len(log[k].sentTo) :
               /\ log[k].sentTo[j] = <<session, ":">> \o Itoa(targets[k].Index)
               /\ \E m \in 1..Len(windows) : windows[m] = targets[k]
         /\ log[k].sends = <<"error">> => log[k].outcome = "Failed" /\ idx > k
         /\ \A m \in Targets :
               (m # k /\ log[k].sentTo # <<>>) => log[m].sentTo # log[k].sentTo
    /\ TotalSends = succeeded + failed

C21_Witness ==
    /\ Delivered
    /\ Len(targets) = 2
    /\ log[1].sends = <<"error">>
    /\ log[2].sends = <<"ok">>
    /\ failed = 1 /\ succeeded = 1

----------------------------------------------------------------------------
\* C22

\* the samples taken and the delays slept for the first k targets
RECURSIVE ProbesUpTo(_)
ProbesUpTo(k) == IF k = 0 THEN 0 ELSE ProbesUpTo(k - 1) + Len(log[k].probes)

RECURSIVE DelaysUpTo(_)
DelaysUpTo(k) == IF k = 0 THEN 0 ELSE DelaysUpTo(k - 1) + log[k].delays

TotalProbes == ProbesUpTo(Len(log))

TotalDelays == DelaysUpTo(Len(log))

\* the work done so far is within the budget of a list of n targets
WithinBudget ==
    /\ TotalProbes <= 3 * Len(targets)
    /\ TotalDelays <= 2 * Len(targets)
    /\ TotalSends <= Len(targets)

Terminated == pc = "done"

\* C22: when every call returns the run comes to its end, and up to the
\* report it has taken at most 3n samples, slept at most 2n delays and made
\* at most n sends for a list of n targets.
C22_TerminatesWithinBudget == <>Terminated /\ []WithinBudget

\* every target busy at all three samples: the whole budget of samples and
\* delays is used
C22_Witness ==
    /\ Delivered
    /\ Len(targets) = 2
    /\ TotalProbes = 6
    /\ TotalDelays = 4
    /\ TotalSends = 0


====
